---- MODULE Spec2Model ----
(***************************************************************************)
(* A model of the container launcher: main (src/src/main.rs), the sandbox  *)
(* launcher and root filesystem builder (src/src/sandbox.rs), the self     *)
(* bind mount (src/src/fs.rs) and the registry client (src/src/images.rs). *)
(*                                                                         *)
(* Three specifications share the state:                                   *)
(*   Spec / FairSpec  one run of the launcher: the parent process from     *)
(*                    main to exit, and the forked child;                  *)
(*   ClientSpec       one DockerRegistryClient under any sequence of       *)
(*                    get_manifest / download_layer calls;                 *)
(*   ApiSpec          one Sandbox whose caller calls consume_output any    *)
(*                    number of times before dropping it.                  *)
(***************************************************************************)
EXTENDS Integers, Sequences, FiniteSets, TLC

\* ------------------------------------------------------------------ bounds
\* The longest manifest (number of layer descriptors) the registry answers with.
MaxLayers == 2
\* The number of calls a caller makes on one client (ClientSpec) or one Sandbox (ApiSpec).
MaxCalls == 3
\* The longest destination file that exists before download_layer (ClientSpec).
MaxFileLen == 3
\* The longest image argument (ParseSpec).
MaxImageLen == 4

\* ------------------------------------------------------- program constants
\* vec![0; 1024]: the size of consume_output's read buffer.
ReadBufferSize == 1024
\* std::process::exit(-1) in main's Err arm.
FailureExitCode == -1
\* output.status.code().unwrap_or(-1): the status of a command without an exit code.
SignalSentinel == -1
\* The exit status of a Rust process whose main thread panicked.
PanicExitCode == 101

None == "None"

\* ------------------------------------------------------------ ChildStatus
\* The exit codes a command is drawn from (one, two and three digits).
ExitCodes == {0, 7, 42, 255}

DigitChar(d) ==
    CASE d = 0 -> "0" [] d = 1 -> "1" [] d = 2 -> "2" [] d = 3 -> "3" [] d = 4 -> "4"
      [] d = 5 -> "5" [] d = 6 -> "6" [] d = 7 -> "7" [] d = 8 -> "8" [] d = 9 -> "9"

DigitChars == {"0", "1", "2", "3", "4", "5", "6", "7", "8", "9"}

DigitValue(c) == CHOOSE d \in 0..9 : DigitChar(d) = c

RECURSIVE NatToBytes(_)
NatToBytes(n) ==
    IF n < 10 THEN <<DigitChar(n)>> ELSE NatToBytes(n \div 10) \o <<DigitChar(n % 10)>>

IntToBytes(n) == IF n < 0 THEN <<"-">> \o NatToBytes(0 - n) ELSE NatToBytes(n)

RECURSIVE BytesToNat(_)
BytesToNat(s) ==
    IF Len(s) = 0 THEN 0
    ELSE 10 * BytesToNat(SubSeq(s, 1, Len(s) - 1)) + DigitValue(s[Len(s)])

\* The bytes of `{"status":` .
StatusPrefix == <<"{", "\"", "s", "t", "a", "t", "u", "s", "\"", ":">>

\* status: output.status.code().unwrap_or(-1) of a finished command.
status_code(cmd) == IF cmd.state = "exited" THEN cmd.code ELSE SignalSentinel

\* A serializer that loses the sign of the status.
to_string_unsigned(status) ==
    StatusPrefix \o NatToBytes(IF status < 0 THEN 0 - status ELSE status) \o <<"}">>

\* serde_json::to_string(&ChildStatus { status }).
to_string(status) == StatusPrefix \o IntToBytes(status) \o <<"}">>

\* A parse that answers the default ChildStatus for bytes that are no ChildStatus.
from_slice_default(bytes) ==
    IF Len(bytes) < Len(StatusPrefix) + 2 THEN <<0>>
    ELSE <<BytesToNat(SubSeq(bytes, Len(StatusPrefix) + 1, Len(bytes) - 1))>>

\* serde_json::from_slice::<ChildStatus>: <<status>>, or <<>> for bytes that are no
\* ChildStatus object (the empty slice among them).
from_slice(bytes) ==
    LET n == Len(bytes)
        p == Len(StatusPrefix)
    IN  IF n < p + 2 THEN <<>>
        ELSE IF SubSeq(bytes, 1, p) # StatusPrefix \/ bytes[n] # "}" THEN <<>>
        ELSE LET num == SubSeq(bytes, p + 1, n - 1)
                 neg == num[1] = "-"
                 dig == IF neg THEN SubSeq(num, 2, Len(num)) ELSE num
             IN  IF Len(dig) = 0 \/ \E i \in 1..Len(dig) : dig[i] \notin DigitChars THEN <<>>
                 ELSE IF neg THEN <<0 - BytesToNat(dig)>> ELSE <<BytesToNat(dig)>>

\* -------------------------------------------------------- registry client
\* What the auth endpoint answers to GET <AUTH_BASE>/<image>:pull :
\*   "token"        a success status, a JSON body with a string field `token`
\*   "no_token"     a success status, a JSON body without a string field `token`
\*   "not_json"     a success status, a body that is no JSON
\*   "status_error" a non-success status
\*   "send_error"   no answer (the request failed)
AuthResponses == {"token", "no_token", "not_json", "status_error", "send_error"}

\* What the registry answers to an authenticated GET (manifest or blob).
RegistryResponses == {"ok", "bad_body", "status_error", "send_error"}

\* What the registry answers to an authenticated GET of a blob (a raw body).
BlobResponses == {"ok", "status_error", "send_error"}

\* The bearer token the auth endpoint hands out.
Token == "tok"

\* DockerRegistryClient::for_image: token: None. requests and fetches count the
\* requests sent to the auth endpoint and the tokens it returned.
for_image == [token |-> None, requests |-> 0, fetches |-> 0]

\* DockerRegistryClient::get_token: Ok(token), Err, or a panic (unwrap on None).
get_token(authResp) ==
    CASE authResp = "send_error"   -> [kind |-> "Err", token |-> None]
      [] authResp = "status_error" -> [kind |-> "Err", token |-> None]
      [] authResp = "not_json"     -> [kind |-> "Err", token |-> None]
      [] authResp = "no_token"     -> [kind |-> "Panic", token |-> None]
      [] authResp = "token"        -> [kind |-> "Ok", token |-> Token]

\* An ensure_token without the `if self.token.is_some()` return.
ensure_token_always_fetch(c, authResp) ==
    LET r == get_token(authResp)
        sent == [c EXCEPT !.requests = @ + 1]
    IN  IF r.kind = "Ok"
        THEN [client |-> [sent EXCEPT !.token = r.token, !.fetches = @ + 1], kind |-> "Ok"]
        ELSE [client |-> sent, kind |-> r.kind]

\* DockerRegistryClient::ensure_token: the client afterwards and the outcome.
ensure_token(c, authResp) ==
    IF c.token # None THEN [client |-> c, kind |-> "Ok"]
    ELSE LET r == get_token(authResp)
             sent == [c EXCEPT !.requests = @ + 1]
         IN  IF r.kind = "Ok"
             THEN [client |-> [sent EXCEPT !.token = r.token, !.fetches = @ + 1],
                   kind |-> "Ok"]
             ELSE [client |-> sent, kind |-> r.kind]

\* A get_manifest that forgets the token when the authenticated request fails.
get_manifest_invalidating(c, authResp, resp, served) ==
    LET e == ensure_token(c, authResp)
    IN  IF e.kind # "Ok" THEN [client |-> e.client, kind |-> e.kind, layers |-> <<>>]
        ELSE IF resp = "ok" THEN [client |-> e.client, kind |-> "Ok", layers |-> served]
        ELSE [client |-> [e.client EXCEPT !.token = None], kind |-> "Err", layers |-> <<>>]

\* DockerRegistryClient::get_manifest: the client afterwards, the outcome and, on
\* Ok, the manifest's layers (served holds what the registry has for the tag).
get_manifest(c, authResp, resp, served) ==
    LET e == ensure_token(c, authResp)
    IN  IF e.kind # "Ok" THEN [client |-> e.client, kind |-> e.kind, layers |-> <<>>]
        ELSE IF resp = "ok" THEN [client |-> e.client, kind |-> "Ok", layers |-> served]
        ELSE [client |-> e.client, kind |-> "Err", layers |-> <<>>]

\* A file of the scratch directory: absent, or present with its bytes.
NoFile == [exists |-> FALSE, bytes |-> <<>>]

FileOf(bytes) == [exists |-> TRUE, bytes |-> bytes]

RECURSIVE Concat(_)
Concat(chunks) == IF Len(chunks) = 0 THEN <<>> ELSE Head(chunks) \o Concat(Tail(chunks))

\* File::options().write(true).create(true).open(dest): the file is created when
\* absent and keeps its bytes when present; the cursor is at offset 0.
open_write_create(file) == IF file.exists THEN file ELSE FileOf(<<>>)

\* file.write_all(chunk) for each chunk from offset 0 on: the written bytes replace
\* the bytes at their offsets, and the bytes of the file beyond them stay.
write_all(file, written) ==
    FileOf(written \o SubSeq(file.bytes, Len(written) + 1, Len(file.bytes)))

\* DockerRegistryClient::download_layer: the client and the destination file
\* afterwards, and the outcome. openOk: the open succeeds; delivered: the number of
\* chunks response.chunk() yields before it fails (Len(chunks): it does not fail).
download_layer(c, file, authResp, resp, chunks, openOk, delivered) ==
    LET e == ensure_token(c, authResp)
    IN  IF e.kind # "Ok" THEN [client |-> e.client, kind |-> e.kind, file |-> file]
        ELSE IF resp \notin {"ok"} THEN [client |-> e.client, kind |-> "Err", file |-> file]
        ELSE IF ~openOk THEN [client |-> e.client, kind |-> "Err", file |-> file]
        ELSE [client |-> e.client,
              kind |-> IF delivered < Len(chunks) THEN "Err" ELSE "Ok",
              file |-> write_all(open_write_create(file),
                                 Concat(SubSeq(chunks, 1, delivered)))]

\* ------------------------------------------------------- layers and files
\* DockerManifestLayer.digest, as its characters: two digests of the form
\* algorithm:hex and one without a ':'.
DigestA == <<"s", ":", "a">>

DigestB == <<"s", ":", "b">>

DigestBad == <<"c">>

Digests == {DigestA, DigestB, DigestBad}

\* The manifests the registry may serve: every sequence of at most MaxLayers digests.
Manifests == UNION {[1..n -> Digests] : n \in 0..MaxLayers}

\* layer.digest.find(':'): the first position of ':', 0 when there is none.
find_colon(digest) ==
    IF \E i \in 1..Len(digest) : digest[i] = ":"
    THEN CHOOSE i \in 1..Len(digest) :
             digest[i] = ":" /\ \A j \in 1..(i - 1) : digest[j] # ":"
    ELSE 0

\* image.split(':').collect(): the parts of the string between its ':'s.
RECURSIVE split(_)
split(str) ==
    IF find_colon(str) = 0 THEN <<str>>
    ELSE <<SubSeq(str, 1, find_colon(str) - 1)>>
             \o split(SubSeq(str, find_colon(str) + 1, Len(str)))

\* The default tag, "latest".
Latest == <<"l", "a", "t", "e", "s", "t">>

\* A parse that takes everything after the first ':' for the tag.
parse_image_rest(image) ==
    [name |-> split(image)[1],
     tag |-> IF find_colon(image) = 0 THEN Latest
             ELSE SubSeq(image, find_colon(image) + 1, Len(image))]

\* Sandbox::run: (image_name, image_tag) from the image argument.
parse_image(image) ==
    LET image_tag == split(image)
    IN  [name |-> image_tag[1],
         tag |-> IF Len(image_tag) >= 2 THEN image_tag[2] ELSE Latest]

\* The characters of an image argument, and the arguments up to MaxImageLen long.
ImageChars == {"a", "b", ":"}

Images == UNION {[1..n -> ImageChars] : n \in 0..MaxImageLen}

\* The image arguments of the launcher runs: with and without a tag.
LauncherImages == {<<"a">>, <<"a", ":", "b">>}

\* &layer.digest[(split_pos + 1)..]: the file name of the layer's archive.
layer_hash(digest) == SubSeq(digest, find_colon(digest) + 1, Len(digest))

Hashes == {layer_hash(d) : d \in {DigestA, DigestB}}

\* The bytes the registry's blob endpoint holds for a digest.
BlobOf(digest) ==
    CASE digest = DigestA -> <<"A1", "A2">>
      [] digest = DigestB -> <<"B1">>
      [] OTHER -> <<>>

\* The body of the blob response, as response.chunk() yields it: a byte a chunk.
ChunksOf(digest) == [i \in 1..Len(BlobOf(digest)) |-> <<BlobOf(digest)[i]>>]

\* The paths of the new root a layer may hold an entry for.
Paths == {"p", "q"}

Absent == "absent"

\* GzDecoder + tar::Archive over an archive's bytes: the entries (path -> content)
\* of the layer; ok is FALSE for bytes that are no gzip'ed tar stream.
archive_entries(bytes) ==
    CASE bytes = BlobOf(DigestA) -> [ok |-> TRUE, entries |-> ("p" :> "pA" @@ "q" :> "qA")]
      [] bytes = BlobOf(DigestB) -> [ok |-> TRUE, entries |-> ("p" :> "pB")]
      [] OTHER -> [ok |-> FALSE, entries |-> <<>>]

\* archive.unpack(dest): every entry of the archive is written into the root, over
\* the entry that is there.
unpack(rootfs, entries) ==
    [x \in Paths |-> IF x \in DOMAIN entries THEN entries[x] ELSE rootfs[x]]

\* ------------------------------------------------------------------ state
VARIABLES
    parent,   \* the launcher process: position in main / Sandbox::run, exit status
    child,    \* the forked process: position in the child branch, exit status
    pipe,     \* the status pipe: its bytes and each process's two descriptors
    cmd,      \* the target command run by the child
    fs,       \* the temporary root directory, its mounts, and the scratch directory
    build,    \* init_sandbox_root's locals: the manifest, layer_archives, loop progress
    client,   \* the DockerRegistryClient
    dest,     \* ClientSpec: the destination file of download_layer
    last,     \* ClientSpec: the last call made on the client and its outcome
    calls     \* ClientSpec, ApiSpec: the number of calls made so far

vars == <<parent, child, pipe, cmd, fs, build, client, dest, last, calls>>

NoCall ==
    [op |-> "none", authResp |-> "none", resp |-> "none", kind |-> "none",
     tokenBefore |-> None, requestsBefore |-> 0, fileBefore |-> NoFile, body |-> <<>>]

\* What an earlier run of the launcher may have left of the archive of a digest: its
\* blob, or the first bytes of it (a download that was cut short).
StaleFiles(digest) == {FileOf(SubSeq(BlobOf(digest), 1, n)) : n \in 0..Len(BlobOf(digest))}

\* The scratch directory /tmp before the run: an archive file is absent, or left
\* there by an earlier run.
InitialScratch ==
    {f \in [Hashes -> {NoFile} \cup StaleFiles(DigestA) \cup StaleFiles(DigestB)] :
        \A d \in {DigestA, DigestB} :
            f[layer_hash(d)] \in {NoFile} \cup StaleFiles(d)}

ParentInit ==
    [pc |-> "main", fail |-> "none", run |-> "none", output |-> <<>>, exited |-> FALSE,
     code |-> 0, diag |-> 0, panicked |-> FALSE]

ChildInit ==
    [pc |-> "none", fail |-> "none", run |-> "none", exited |-> FALSE, code |-> 0,
     diag |-> 0, panicked |-> FALSE, pivoted |-> FALSE, bytes |-> <<>>]

PipeInit ==
    [buf |-> <<>>, pr |-> "none", pw |-> "none", cr |-> "none", cw |-> "none",
     reads |-> 0, closes |-> 0, badReads |-> 0, writes |-> 0]

FsInit(scratch) ==
    [rootDir |-> "none", drops |-> <<>>, bindMounted |-> FALSE, devNull |-> FALSE,
     tmpDir |-> FALSE, oldRoot |-> "none", hostFilesRemoved |-> FALSE,
     rootfs |-> [x \in Paths |-> Absent], scratch |-> scratch]

BuildInit ==
    [layers |-> <<>>, layer_archives |-> <<>>, downloaded |-> <<>>, extracted |-> <<>>,
     removed |-> 0, removeError |-> "none", image |-> <<>>, image_name |-> <<>>,
     image_tag |-> <<>>]

Init ==
    /\ parent = ParentInit
    /\ child = ChildInit
    /\ pipe = PipeInit
    /\ cmd = [state |-> "none", code |-> 0]
    /\ \E scratch \in InitialScratch : fs = FsInit(scratch)
    /\ \E image \in LauncherImages : build = [BuildInit EXCEPT !.image = image]
    /\ client = for_image
    /\ dest = NoFile
    /\ last = NoCall
    /\ calls = 0

\* ------------------------------------------------- the parent: unwinding
\* TempDir's destructor, run by `who`: remove_dir_all of the directory; it removes
\* the directory when the path still names it (effective), and its errors are ignored.
drop_root(f, who, effective) ==
    [f EXCEPT !.drops = Append(@, who),
              !.rootDir = IF effective /\ @ = "present" THEN "removed" ELSE @]

\* The parent holds the TempDir (new_root, later Sandbox.root_dir) from tempdir() on.
ParentHoldsRoot == parent.pc \notin {"main", "tempdir"}

\* A panic in the parent (a failed expect/unwrap): the stack unwinds, which drops
\* the TempDir when there is one, and the process exits with status 101.
parent_panic(f) ==
    /\ parent' = [parent EXCEPT !.pc = "done", !.fail = parent.pc, !.exited = TRUE,
                                !.code = PanicExitCode, !.panicked = TRUE]
    /\ fs' = IF ParentHoldsRoot THEN drop_root(f, "parent", TRUE) ELSE f

\* `?` in Sandbox::run or below it, in the parent: run returns Err to main, which
\* drops new_root on the way.
parent_err(f) ==
    /\ parent' = [parent EXCEPT !.pc = "run_err", !.fail = parent.pc, !.run = "Err"]
    /\ fs' = IF ParentHoldsRoot THEN drop_root(f, "parent", TRUE) ELSE f

\* ------------------------------------------- Sandbox::run, before the fork
\* build with the image reference parsed from build.image.
image_parsed ==
    [build EXCEPT !.image_name = parse_image(build.image).name,
                  !.image_tag = parse_image(build.image).tag]

\* nix::unistd::pipe().expect(..): both ends open in the parent; then the image
\* argument is split into name and tag.
run_pipe ==
    /\ parent.pc = "main"
    /\ \E ok \in BOOLEAN :
        IF ok
        THEN /\ pipe' = [pipe EXCEPT !.pr = "open", !.pw = "open"]
             /\ parent' = [parent EXCEPT !.pc = "tempdir"]
             /\ build' = image_parsed
             /\ fs' = fs
        ELSE /\ parent_panic(fs)
             /\ UNCHANGED <<pipe, build>>
    /\ UNCHANGED <<child, cmd, client, dest, last, calls>>

\* init_sandbox_root: tempdir().expect(..).
init_tempdir ==
    /\ parent.pc = "tempdir"
    /\ \E ok \in BOOLEAN :
        IF ok
        THEN /\ parent' = [parent EXCEPT !.pc = "bind_mount"]
             /\ fs' = [fs EXCEPT !.rootDir = "present"]
        ELSE parent_panic(fs)
    /\ UNCHANGED <<child, pipe, cmd, build, client, dest, last, calls>>

\* init_sandbox_root: bind_mount(new_root_path)?.
bind_mount ==
    /\ parent.pc = "bind_mount"
    /\ \E ok \in BOOLEAN :
        IF ok
        THEN /\ parent' = [parent EXCEPT !.pc = "create_dev_null"]
             /\ fs' = [fs EXCEPT !.bindMounted = TRUE]
        ELSE parent_err(fs)
    /\ UNCHANGED <<child, pipe, cmd, build, client, dest, last, calls>>

\* init_sandbox_root: create_dev_null(new_root_path), whose two steps are expect'ed.
create_dev_null ==
    /\ parent.pc = "create_dev_null"
    /\ \E ok \in BOOLEAN :
        IF ok
        THEN /\ parent' = [parent EXCEPT !.pc = "create_tmp"]
             /\ fs' = [fs EXCEPT !.devNull = TRUE]
        ELSE parent_panic(fs)
    /\ UNCHANGED <<child, pipe, cmd, build, client, dest, last, calls>>

\* init_sandbox_root: fs::create_dir_all(new_root/tmp).expect(..).
create_tmp ==
    /\ parent.pc = "create_tmp"
    /\ \E ok \in BOOLEAN :
        IF ok
        THEN /\ parent' = [parent EXCEPT !.pc = "create_old_root"]
             /\ fs' = [fs EXCEPT !.tmpDir = TRUE]
        ELSE parent_panic(fs)
    /\ UNCHANGED <<child, pipe, cmd, build, client, dest, last, calls>>

\* init_sandbox_root: the umount2 whose result is dropped, then
\* fs::create_dir_all(new_root/old_root).context(..)?.
create_old_root ==
    /\ parent.pc = "create_old_root"
    /\ \E ok \in BOOLEAN :
        IF ok
        THEN /\ parent' = [parent EXCEPT !.pc = "get_manifest"]
             /\ fs' = [fs EXCEPT !.oldRoot = "dir"]
        ELSE parent_err(fs)
    /\ UNCHANGED <<child, pipe, cmd, build, client, dest, last, calls>>

\* Where init_sandbox_root goes on after the step at `pc` has handled item i of n:
\* to the same loop, to the next loop, or (no archives at all) to the fork.
after_loop(pc, i, n) ==
    IF i < n THEN pc
    ELSE CASE pc = "get_manifest" -> "extract"
           [] pc = "download" -> "extract"
           [] pc = "extract" -> "remove"
           [] pc = "remove" -> "fork"

\* pull_image_layers: DockerRegistryClient::for_image and client.get_manifest().await?.
pull_get_manifest ==
    /\ parent.pc = "get_manifest"
    /\ \E authResp \in AuthResponses, resp \in RegistryResponses, served \in Manifests :
        LET r == get_manifest(for_image, authResp, resp, served)
        IN  /\ client' = r.client
            /\ CASE r.kind = "Ok" ->
                       /\ build' = [build EXCEPT !.layers = r.layers]
                       /\ parent' = [parent EXCEPT !.pc =
                              IF Len(r.layers) = 0 THEN "fork" ELSE "download"]
                       /\ fs' = fs
                  [] r.kind = "Err" -> parent_err(fs) /\ build' = build
                  [] r.kind = "Panic" -> parent_panic(fs) /\ build' = build
    /\ UNCHANGED <<child, pipe, cmd, dest, last, calls>>

\* pull_image_layers: one turn of `for layer in &manifest.layers`.
pull_download_layer ==
    /\ parent.pc = "download"
    /\ LET i == Len(build.layer_archives) + 1
           digest == build.layers[i]
           dest_file == layer_hash(digest)
       IN  IF find_colon(digest) = 0
           THEN /\ parent_panic(fs)
                /\ UNCHANGED <<build, client>>
           ELSE \E authResp \in AuthResponses, resp \in BlobResponses, openOk \in BOOLEAN,
                   delivered \in 0..Len(ChunksOf(digest)) :
                LET r == download_layer(client, fs.scratch[dest_file], authResp, resp,
                                        ChunksOf(digest), openOk, delivered)
                    f == [fs EXCEPT !.scratch[dest_file] = r.file]
                IN  /\ client' = r.client
                    /\ CASE r.kind = "Ok" ->
                               /\ build' = [build EXCEPT
                                      !.layer_archives = Append(@, dest_file),
                                      !.downloaded = Append(@, digest)]
                               /\ parent' = [parent EXCEPT !.pc =
                                      after_loop("download", i, Len(build.layers))]
                               /\ fs' = f
                          [] r.kind = "Err" -> parent_err(f) /\ build' = build
                          [] r.kind = "Panic" -> parent_panic(f) /\ build' = build
    /\ UNCHANGED <<child, pipe, cmd, dest, last, calls>>

\* An extract_layers that walks the archives from the last to the first.
extract_archive_reversed(i) == build.layer_archives[Len(build.layer_archives) + 1 - i]

\* The archive extract_layers handles in its turn i.
extract_archive(i) == build.layer_archives[i]

\* extract_layers: one turn of `for archive in archives`: File::open(archive)?,
\* then unpack(dest)?, which may fail after writing some of the entries.
extract_layer ==
    /\ parent.pc = "extract"
    /\ LET i == Len(build.extracted) + 1
           archive == extract_archive(i)
           file == fs.scratch[archive]
           a == archive_entries(file.bytes)
       IN  \E openOk \in BOOLEAN :
               IF ~file.exists \/ ~openOk \/ ~a.ok
               THEN /\ parent_err(fs)
                    /\ build' = build
               ELSE \E written \in SUBSET DOMAIN a.entries :
                       LET f == [fs EXCEPT !.rootfs =
                                    unpack(@, [x \in written |-> a.entries[x]])]
                       IN  IF written = DOMAIN a.entries
                           THEN /\ build' = [build EXCEPT !.extracted = Append(@, archive)]
                                /\ parent' = [parent EXCEPT !.pc =
                                       after_loop("extract", i, Len(build.layer_archives))]
                                /\ fs' = f
                           ELSE /\ parent_err(f)
                                /\ build' = build
    /\ UNCHANGED <<child, pipe, cmd, client, dest, last, calls>>

\* init_sandbox_root: one turn of `for archive in &layer_archives`:
\* fs::remove_file(archive).expect(..), which fails for a file that is not there
\* (removeError "not_found") or when the file system refuses ("io").
remove_archive ==
    /\ parent.pc = "remove"
    /\ LET i == build.removed + 1
           archive == build.layer_archives[i]
       IN  \E ok \in BOOLEAN :
               IF fs.scratch[archive].exists /\ ok
               THEN /\ build' = [build EXCEPT !.removed = i]
                    /\ parent' = [parent EXCEPT !.pc =
                           after_loop("remove", i, Len(build.layer_archives))]
                    /\ fs' = [fs EXCEPT !.scratch[archive] = NoFile]
               ELSE /\ parent_panic(fs)
                    /\ build' = [build EXCEPT !.removeError =
                           IF fs.scratch[archive].exists THEN "io" ELSE "not_found"]
    /\ UNCHANGED <<child, pipe, cmd, client, dest, last, calls>>

\* ---------------------------------------------------- the fork, the parent
\* fork()?: the child starts with a copy of both descriptors.
fork ==
    /\ parent.pc = "fork"
    /\ \E ok \in BOOLEAN :
        IF ok
        THEN /\ parent' = [parent EXCEPT !.pc = "close_w"]
             /\ child' = [child EXCEPT !.pc = "close_r"]
             /\ pipe' = [pipe EXCEPT !.cr = pipe.pr, !.cw = pipe.pw]
             /\ fs' = fs
        ELSE /\ parent_err(fs)
             /\ UNCHANGED <<child, pipe>>
    /\ UNCHANGED <<cmd, build, client, dest, last, calls>>

\* A parent branch that returns the Sandbox without closing its write end.
parent_keeps_w ==
    /\ parent.pc = "close_w"
    /\ parent' = [parent EXCEPT !.pc = "consume_output", !.run = "Ok"]
    /\ UNCHANGED <<child, pipe, cmd, fs, build, client, dest, last, calls>>

\* ForkResult::Parent: close(w_pipe).expect(..), then run returns Ok(Sandbox).
parent_close_w ==
    /\ parent.pc = "close_w"
    /\ \E ok \in BOOLEAN :
        IF ok
        THEN /\ parent' = [parent EXCEPT !.pc = "consume_output", !.run = "Ok"]
             /\ pipe' = [pipe EXCEPT !.pw = "closed"]
             /\ fs' = fs
        ELSE /\ parent_panic(fs)
             /\ pipe' = pipe
    /\ UNCHANGED <<child, cmd, build, client, dest, last, calls>>

Min(a, b) == IF a < b THEN a ELSE b

\* read(2) on the read end blocks while the pipe is empty and a write end is open.
read_ready == pipe.pr # "open" \/ Len(pipe.buf) > 0 \/ (pipe.pw # "open" /\ pipe.cw # "open")

\* Sandbox::consume_output, up to its return: [pipe, output] where output is
\* <<status>>, or <<>> when one of its expect's panics. A read on the closed
\* descriptor fails; otherwise one read of at most ReadBufferSize bytes, the close
\* of the read end, and the parse of the bytes read.
consume_output(pi) ==
    IF pi.pr # "open"
    THEN [pipe |-> [pi EXCEPT !.badReads = @ + 1], output |-> <<>>]
    ELSE LET bytes_read == Min(Len(pi.buf), ReadBufferSize)
         IN  [pipe |-> [pi EXCEPT !.buf = SubSeq(@, bytes_read + 1, Len(@)),
                                  !.reads = @ + 1, !.pr = "closed", !.closes = @ + 1],
              output |-> from_slice(SubSeq(pi.buf, 1, bytes_read))]

\* main's Ok arm: let output = sandbox.consume_output().
main_consume_output ==
    /\ parent.pc = "consume_output"
    /\ read_ready
    /\ LET r == consume_output(pipe)
       IN  /\ pipe' = r.pipe
           /\ IF r.output = <<>>
              THEN parent_panic(fs)
              ELSE /\ parent' = [parent EXCEPT !.pc = "waitpid", !.output = r.output]
                   /\ fs' = fs
    /\ UNCHANGED <<child, cmd, build, client, dest, last, calls>>

\* main's Ok arm: waitpid(child_pid).expect(..) and std::process::exit(output.status),
\* which runs no destructor.
main_waitpid_exit ==
    /\ parent.pc = "waitpid"
    /\ child.exited
    /\ \E ok \in BOOLEAN :
        IF ok
        THEN /\ parent' = [parent EXCEPT !.pc = "done", !.exited = TRUE,
                                         !.code = parent.output[1]]
             /\ fs' = fs
        ELSE parent_panic(fs)
    /\ UNCHANGED <<child, pipe, cmd, build, client, dest, last, calls>>

\* main's Err arm, in the parent: eprintln!(..) and std::process::exit(-1).
main_err ==
    /\ parent.pc = "run_err"
    /\ parent' = [parent EXCEPT !.pc = "done", !.exited = TRUE, !.code = FailureExitCode,
                                !.diag = @ + 1]
    /\ UNCHANGED <<child, pipe, cmd, fs, build, client, dest, last, calls>>

\* --------------------------------------------------------------- the child
\* The child's exit closes its descriptors.
child_fds_closed(pi) ==
    [pi EXCEPT !.cr = IF @ = "open" THEN "closed" ELSE @,
               !.cw = IF @ = "open" THEN "closed" ELSE @]

\* The child's copy of new_root is dropped (a panic unwinding, or `?` returning from
\* run): its destructor removes the directory unless pivot_root has moved the
\* child to another root, where the path no longer names it.
child_drop_root(f) == drop_root(f, "child", ~child.pivoted)

\* A failed expect in the child branch: the child unwinds and exits with status 101.
child_panic(step, f) ==
    /\ child' = [child EXCEPT !.pc = "done", !.fail = step, !.exited = TRUE,
                              !.code = PanicExitCode, !.panicked = TRUE]
    /\ pipe' = child_fds_closed(pipe)
    /\ fs' = child_drop_root(f)

\* `?` in the child branch: Sandbox::run returns Err in the child, to main.
child_err(step, f) ==
    /\ child' = [child EXCEPT !.pc = "run_err", !.fail = step, !.run = "Err"]
    /\ pipe' = pipe
    /\ fs' = child_drop_root(f)

\* A child branch that goes on without closing its copy of the read end.
child_keeps_r ==
    /\ child.pc = "close_r"
    /\ child' = [child EXCEPT !.pc = "unshare"]
    /\ UNCHANGED <<parent, pipe, cmd, fs, build, client, dest, last, calls>>

\* ForkResult::Child: close(r_pipe).expect(..).
child_close_r ==
    /\ child.pc = "close_r"
    /\ \E ok \in BOOLEAN :
        IF ok
        THEN /\ child' = [child EXCEPT !.pc = "unshare"]
             /\ pipe' = [pipe EXCEPT !.cr = "closed"]
             /\ fs' = fs
        ELSE child_panic("close_r", fs)
    /\ UNCHANGED <<parent, cmd, build, client, dest, last, calls>>

\* unshare(CLONE_NEWNS | CLONE_NEWPID).expect(..).
child_unshare ==
    /\ child.pc = "unshare"
    /\ \E ok \in BOOLEAN :
        IF ok
        THEN /\ child' = [child EXCEPT !.pc = "pivot_root"]
             /\ UNCHANGED <<pipe, fs>>
        ELSE child_panic("unshare", fs)
    /\ UNCHANGED <<parent, cmd, build, client, dest, last, calls>>

\* pivot_root(new_root, new_root/old_root)?: the old root is now mounted on /old_root.
child_pivot_root ==
    /\ child.pc = "pivot_root"
    /\ \E ok \in BOOLEAN :
        IF ok
        THEN /\ child' = [child EXCEPT !.pc = "umount", !.pivoted = TRUE]
             /\ fs' = [fs EXCEPT !.oldRoot = "mounted"]
             /\ pipe' = pipe
        ELSE child_err("pivot_root", fs)
    /\ UNCHANGED <<parent, cmd, build, client, dest, last, calls>>

\* _ = umount2(/old_root, MNT_DETACH): the result is dropped.
child_umount ==
    /\ child.pc = "umount"
    /\ \E ok \in BOOLEAN :
        /\ child' = [child EXCEPT !.pc = "remove_old_root"]
        /\ fs' = [fs EXCEPT !.oldRoot = IF ok THEN "dir" ELSE @]
    /\ UNCHANGED <<parent, pipe, cmd, build, client, dest, last, calls>>

\* fs::remove_dir_all(/old_root).expect(..): over a still mounted old root it removes
\* the files of the old root and fails on the mount point itself.
child_remove_old_root ==
    /\ child.pc = "remove_old_root"
    /\ \E ok \in BOOLEAN :
        IF fs.oldRoot = "mounted"
        THEN child_panic("remove_old_root", [fs EXCEPT !.hostFilesRemoved = TRUE])
        ELSE IF ok
        THEN /\ child' = [child EXCEPT !.pc = "chdir"]
             /\ fs' = [fs EXCEPT !.oldRoot = "none"]
             /\ pipe' = pipe
        ELSE child_panic("remove_old_root", fs)
    /\ UNCHANGED <<parent, cmd, build, client, dest, last, calls>>

\* std::env::set_current_dir("/").expect(..).
child_chdir ==
    /\ child.pc = "chdir"
    /\ \E ok \in BOOLEAN :
        IF ok
        THEN /\ child' = [child EXCEPT !.pc = "spawn"]
             /\ UNCHANGED <<pipe, fs>>
        ELSE child_panic("chdir", fs)
    /\ UNCHANGED <<parent, cmd, build, client, dest, last, calls>>

\* Command::new(command)...output(): the spawn; it fails (with_context(..)?) for a
\* command that does not exist.
child_spawn ==
    /\ child.pc = "spawn"
    /\ \E ok \in BOOLEAN :
        IF ok
        THEN /\ child' = [child EXCEPT !.pc = "wait_cmd"]
             /\ cmd' = [cmd EXCEPT !.state = "running"]
             /\ UNCHANGED <<pipe, fs>>
        ELSE /\ child_err("spawn", fs)
             /\ cmd' = cmd
    /\ UNCHANGED <<parent, build, client, dest, last, calls>>

\* The target command ends: it exits with a code, or a signal terminates it.
command_terminates ==
    /\ cmd.state = "running"
    /\ \/ \E c \in ExitCodes : cmd' = [state |-> "exited", code |-> c]
       \/ cmd' = [state |-> "signaled", code |-> 0]
    /\ UNCHANGED <<parent, child, pipe, fs, build, client, dest, last, calls>>

\* output() returns once the command has ended; ChildStatus { status } and
\* serde_json::to_string(..).expect(..).
child_serialize ==
    /\ child.pc = "wait_cmd"
    /\ cmd.state \in {"exited", "signaled"}
    /\ \E ok \in BOOLEAN :
        IF ok
        THEN /\ child' = [child EXCEPT !.pc = "write", !.bytes = to_string(status_code(cmd))]
             /\ UNCHANGED <<pipe, fs>>
        ELSE child_panic("serialize", fs)
    /\ UNCHANGED <<parent, cmd, build, client, dest, last, calls>>

\* A child branch that writes the message and exits without closing the write end.
child_write_no_close ==
    /\ child.pc = "write"
    /\ child' = [child EXCEPT !.pc = "exit"]
    /\ pipe' = [pipe EXCEPT !.buf = @ \o child.bytes, !.writes = @ + 1]
    /\ UNCHANGED <<parent, cmd, fs, build, client, dest, last, calls>>

\* write(w_pipe, serialized_output.as_bytes()).expect(..).
child_write ==
    /\ child.pc = "write"
    /\ \E ok \in BOOLEAN :
        IF ok
        THEN /\ child' = [child EXCEPT !.pc = "close_w"]
             /\ pipe' = [pipe EXCEPT !.buf = @ \o child.bytes, !.writes = @ + 1]
             /\ fs' = fs
        ELSE child_panic("write", fs)
    /\ UNCHANGED <<parent, cmd, build, client, dest, last, calls>>

\* close(w_pipe).expect(..).
child_close_w ==
    /\ child.pc = "close_w"
    /\ \E ok \in BOOLEAN :
        IF ok
        THEN /\ child' = [child EXCEPT !.pc = "exit"]
             /\ pipe' = [pipe EXCEPT !.cw = "closed"]
             /\ fs' = fs
        ELSE child_panic("close_w", fs)
    /\ UNCHANGED <<parent, cmd, build, client, dest, last, calls>>

\* std::process::exit(0) at the end of the child branch.
child_exit ==
    /\ child.pc = "exit"
    /\ child' = [child EXCEPT !.pc = "done", !.exited = TRUE, !.code = 0]
    /\ pipe' = child_fds_closed(pipe)
    /\ UNCHANGED <<parent, cmd, fs, build, client, dest, last, calls>>

\* main's Err arm, in the child that returned from run: eprintln!(..) and
\* std::process::exit(-1).
child_main_err ==
    /\ child.pc = "run_err"
    /\ child' = [child EXCEPT !.pc = "done", !.exited = TRUE, !.code = FailureExitCode,
                              !.diag = @ + 1]
    /\ pipe' = child_fds_closed(pipe)
    /\ UNCHANGED <<parent, cmd, fs, build, client, dest, last, calls>>

\* ------------------------------------------------------- the launcher run
ParentNext ==
    \/ run_pipe \/ init_tempdir \/ bind_mount \/ create_dev_null \/ create_tmp
    \/ create_old_root \/ pull_get_manifest \/ pull_download_layer \/ extract_layer
    \/ remove_archive \/ fork \/ parent_close_w \/ main_consume_output
    \/ main_waitpid_exit \/ main_err

ChildNext ==
    \/ child_close_r \/ child_unshare \/ child_pivot_root \/ child_umount
    \/ child_remove_old_root \/ child_chdir \/ child_spawn \/ child_serialize
    \/ child_write \/ child_close_w \/ child_exit \/ child_main_err

Next == ParentNext \/ ChildNext \/ command_terminates

Spec == Init /\ [][Next]_vars

\* Both processes are scheduled: a step of the parent, or of the child, that stays
\* possible is eventually taken. Nothing makes the target command end.
FairSpec == Spec /\ WF_vars(ParentNext) /\ WF_vars(ChildNext)

\* ------------------------------------- one client, any sequence of calls
\* The destination file before a call: absent, or present with up to MaxFileLen bytes.
InitialDest == {NoFile} \cup {FileOf([i \in 1..n |-> "X"]) : n \in 0..MaxFileLen}

ClientInit ==
    /\ parent = [ParentInit EXCEPT !.pc = "caller"]
    /\ child = ChildInit
    /\ pipe = PipeInit
    /\ cmd = [state |-> "none", code |-> 0]
    /\ fs = FsInit([h \in Hashes |-> NoFile])
    /\ build = BuildInit
    /\ client = for_image
    /\ dest \in InitialDest
    /\ last = NoCall
    /\ calls = 0

\* A caller may call the client again unless the last call panicked.
CanCall == calls < MaxCalls /\ last.kind # "Panic"

\* A call of client.get_manifest().
client_get_manifest ==
    /\ CanCall
    /\ \E authResp \in AuthResponses, resp \in RegistryResponses, served \in Manifests :
        LET r == get_manifest(client, authResp, resp, served)
        IN  /\ client' = r.client
            /\ last' = [op |-> "get_manifest", authResp |-> authResp, resp |-> resp,
                        kind |-> r.kind, tokenBefore |-> client.token,
                        requestsBefore |-> client.requests, fileBefore |-> dest,
                        body |-> <<>>]
    /\ calls' = calls + 1
    /\ UNCHANGED <<parent, child, pipe, cmd, fs, build, dest>>

\* A call of client.download_layer(dest, digest, media_type).
client_download_layer ==
    /\ CanCall
    /\ \E authResp \in AuthResponses, resp \in BlobResponses, digest \in Digests,
          openOk \in BOOLEAN :
        \E delivered \in 0..Len(ChunksOf(digest)) :
        LET r == download_layer(client, dest, authResp, resp, ChunksOf(digest), openOk,
                                delivered)
        IN  /\ client' = r.client
            /\ dest' = r.file
            /\ last' = [op |-> "download_layer", authResp |-> authResp, resp |-> resp,
                        kind |-> r.kind, tokenBefore |-> client.token,
                        requestsBefore |-> client.requests, fileBefore |-> dest,
                        body |-> ChunksOf(digest)]
    /\ calls' = calls + 1
    /\ UNCHANGED <<parent, child, pipe, cmd, fs, build>>

ClientNext == client_get_manifest \/ client_download_layer

ClientSpec == ClientInit /\ [][ClientNext]_vars

\* --------------------------------------------- the image argument, parsed
ParseInit ==
    /\ parent = [ParentInit EXCEPT !.pc = "args"]
    /\ child = ChildInit
    /\ pipe = PipeInit
    /\ cmd = [state |-> "none", code |-> 0]
    /\ fs = FsInit([h \in Hashes |-> NoFile])
    /\ \E image \in Images : build = [BuildInit EXCEPT !.image = image]
    /\ client = for_image
    /\ dest = NoFile
    /\ last = NoCall
    /\ calls = 0

\* Sandbox::run on any image argument, up to the parsed image reference.
run_parse_image ==
    /\ parent.pc = "args"
    /\ parent' = [parent EXCEPT !.pc = "parsed"]
    /\ build' = image_parsed
    /\ UNCHANGED <<child, pipe, cmd, fs, client, dest, last, calls>>

ParseSpec == ParseInit /\ [][run_parse_image]_vars

\* ------------------------------------ one Sandbox, any sequence of calls
\* A caller of Sandbox::run other than main: it calls consume_output(&self) any
\* number of times on the Sandbox it got.
api_consume_output ==
    /\ parent.pc = "consume_output"
    /\ calls < MaxCalls
    /\ read_ready
    /\ LET r == consume_output(pipe)
       IN  /\ pipe' = r.pipe
           /\ IF r.output = <<>>
              THEN parent_panic(fs)
              ELSE /\ parent' = [parent EXCEPT !.output = r.output]
                   /\ fs' = fs
    /\ calls' = calls + 1
    /\ UNCHANGED <<child, cmd, build, client, dest, last>>

\* The caller lets the Sandbox go out of scope: its fields are dropped, root_dir
\* (a TempDir) by its destructor, read_pipe (a RawFd, an integer) by nothing.
api_drop ==
    /\ parent.pc = "consume_output"
    /\ parent' = [parent EXCEPT !.pc = "dropped"]
    /\ fs' = drop_root(fs, "parent", TRUE)
    /\ UNCHANGED <<child, pipe, cmd, build, client, dest, last, calls>>

ApiNext ==
    \/ run_pipe \/ init_tempdir \/ bind_mount \/ create_dev_null \/ create_tmp
    \/ create_old_root \/ pull_get_manifest \/ pull_download_layer \/ extract_layer
    \/ remove_archive \/ fork \/ parent_close_w \/ main_err
    \/ api_consume_output \/ api_drop
    \/ ChildNext \/ command_terminates

ApiSpec == Init /\ [][ApiNext]_vars

\* ================================================================ claims
CommandEnded == cmd.state \in {"exited", "signaled"}

\* C1: whenever the parent's status read has returned a ChildStatus, the command has
\* ended and the status is the command's exit code, or the sentinel -1 for a command
\* a signal terminated; and once the command has ended the read does not block for
\* ever: it returns, unless one of the child's later steps failed or the parent
\* itself panicked.
C1_StatusRelayed ==
    /\ [](parent.output # <<>> =>
            /\ CommandEnded
            /\ cmd.state = "exited" => parent.output = <<cmd.code>>
            /\ cmd.state = "signaled" => parent.output = <<SignalSentinel>>)
    /\ (CommandEnded ~> (parent.output # <<>> \/ child.fail # "none" \/ parent.panicked))

C1_Witness ==
    /\ parent.exited
    /\ cmd.state = "signaled"
    /\ parent.output = <<SignalSentinel>>
    /\ parent.code = SignalSentinel

\* The failures of the child after the fork that C2 lists.
ListedChildFailures ==
    {"spawn", "unshare", "pivot_root", "remove_old_root", "chdir", "serialize", "write"}

\* C2: after any listed failure of the child, the parent never exits with status 0
\* and never takes the outcome for a status of the command, and it does exit: the
\* status read returns (end of stream) and the launcher ends with a non-zero status.
C2_ChildFailureEndsLauncher ==
    /\ [](child.fail \in ListedChildFailures =>
            /\ parent.output = <<>>
            /\ parent.exited => parent.code # 0)
    /\ (child.fail \in ListedChildFailures ~> (parent.exited /\ parent.code # 0))

C2_Witness ==
    /\ child.fail = "spawn"
    /\ parent.exited
    /\ pipe.reads = 1
    /\ parent.code = PanicExitCode

\* The setup steps C3 lists, by the position of the parent at which they fail.
SetupSteps ==
    {"tempdir", "bind_mount", "create_dev_null", "create_old_root", "get_manifest",
     "download", "extract", "remove", "fork"}

\* C3 (as claimed): a launcher that ended after a setup step failed has printed one
\* diagnostic line, has exited with -1 and has not run the command; a launcher that
\* ended without a failure of its own exits with the command's exit code.
C3_SetupFailureExit ==
    /\ (parent.exited /\ parent.fail \in SetupSteps) =>
           (parent.diag = 1 /\ parent.code = FailureExitCode /\ cmd.state = "none")
    /\ (parent.exited /\ parent.fail = "none" /\ cmd.state = "exited") =>
           parent.code = cmd.code

IsolationSteps == {"unshare", "pivot_root"}

\* C4 (as claimed): the parent holds no Sandbox (run has not returned Ok) for a child
\* whose unshare or pivot_root failed.
C4_NoSandboxForFailedChild == child.fail \in IsolationSteps => parent.run # "Ok"

\* C4 (amended): a failure of unshare or pivot_root is never an Err of run in the
\* parent; the parent reads no status, and when it ends it has panicked (status
\* 101) without main's diagnostic line.
C4_FailureSeenOnChannel ==
    child.fail \in IsolationSteps =>
        /\ parent.run # "Err"
        /\ parent.output = <<>>
        /\ parent.exited => (parent.code = PanicExitCode /\ parent.diag = 0)

C4_Witness ==
    /\ child.fail = "pivot_root"
    /\ parent.run = "Ok"
    /\ parent.exited
    /\ pipe.reads = 1

\* C5: one client gets at most one token; a call made with the token cached sends
\* no request to the auth endpoint and leaves the token as it is; after a
\* successful call the client has fetched exactly one token.
C5_TokenFetchedOnce ==
    /\ client.fetches <= 1
    /\ last.tokenBefore # None =>
           (client.requests = last.requestsBefore /\ client.token = last.tokenBefore)
    /\ last.kind = "Ok" => client.fetches = 1

C5_Witness ==
    /\ calls >= 2
    /\ last.kind = "Ok"
    /\ last.tokenBefore = Token
    /\ client.fetches = 1
    /\ client.requests >= 1

\* The entries of the layer with the given digest.
EntriesOf(digest) == archive_entries(BlobOf(digest)).entries

SetMax(S) == CHOOSE x \in S : \A y \in S : y <= x

\* The content of path x after layers 1..n of the manifest, last writer winning.
LastWriter(layers, n, x) ==
    LET holders == {i \in 1..n : x \in DOMAIN EntriesOf(layers[i])}
    IN  IF holders = {} THEN Absent ELSE EntriesOf(layers[SetMax(holders)])[x]

\* C6: the archives downloaded are those of the manifest's layers, in the manifest's
\* order; the archives extracted are the downloaded ones, in the same order; and
\* while no unpack has failed midway, each path of the new root holds the content
\* of the last of the extracted layers that contains it.
C6_LayersInManifestOrder ==
    /\ Len(build.downloaded) <= Len(build.layers)
    /\ build.downloaded = SubSeq(build.layers, 1, Len(build.downloaded))
    /\ build.layer_archives =
           [i \in 1..Len(build.downloaded) |-> layer_hash(build.downloaded[i])]
    /\ Len(build.extracted) <= Len(build.layer_archives)
    /\ build.extracted = SubSeq(build.layer_archives, 1, Len(build.extracted))
    /\ parent.fail # "extract" =>
           \A x \in Paths :
               fs.rootfs[x] = LastWriter(build.layers, Len(build.extracted), x)

C6_Witness ==
    /\ parent.pc = "fork"
    /\ build.layers = <<DigestA, DigestB>>
    /\ build.extracted = <<layer_hash(DigestA), layer_hash(DigestB)>>
    /\ fs.rootfs["p"] = "pB"
    /\ fs.rootfs["q"] = "qA"

\* C7 (as claimed): the read end is never read or closed twice, never read after
\* its close, and a Sandbox that was dropped has had it read once and closed once.
C7_ReadEndReleasedOnce ==
    /\ pipe.badReads = 0
    /\ pipe.reads <= 1
    /\ pipe.closes <= 1
    /\ parent.pc = "dropped" => (pipe.reads = 1 /\ pipe.closes = 1 /\ pipe.pr = "closed")

\* The number of times the parent ran the destructor of the temporary root.
ParentDrops == Cardinality({i \in 1..Len(fs.drops) : fs.drops[i] = "parent"})

\* C8 (as claimed): when a launcher that got a Sandbox has exited, the parent has
\* destroyed the temporary root directory exactly once and it is gone.
C8_RootDestroyedByParent ==
    (parent.exited /\ parent.run = "Ok") => (ParentDrops = 1 /\ fs.rootDir = "removed")

\* C9 (as claimed): a call that found no cached token and whose token request was
\* answered with a non-success status, or with a body without a token, returns an
\* error and leaves the token empty.
C9_TokenFailureIsError ==
    (last.op # "none" /\ last.tokenBefore = None
       /\ last.authResp \in {"status_error", "no_token"}) =>
        (last.kind = "Err" /\ client.token = None)

\* C10 (as claimed): after a successful download_layer the destination file holds
\* exactly the chunks of the body, in order.
C10_FileIsBody ==
    (last.op = "download_layer" /\ last.kind = "Ok") => dest = FileOf(Concat(last.body))

\* C11: a parent that got its Sandbox holds no write end, and a child that is past
\* its first step holds no read end: the close of the unused end is the first step
\* of each side after the fork. While the child works it holds the write end. Once
\* the child has ended no write end is open, so the read of a parent that waits
\* finds the message or the end of the stream.
C11_UnusedEndsClosedFirst ==
    /\ parent.run = "Ok" => (pipe.pw = "closed" /\ pipe.pr \in {"open", "closed"})
    /\ pipe.pw = "open" => parent.pc \notin {"consume_output", "waitpid"}
    /\ child.pc \notin {"none", "close_r"} => pipe.cr = "closed"
    /\ child.pc \in {"unshare", "pivot_root", "umount", "remove_old_root", "chdir",
                     "spawn", "wait_cmd", "write", "close_w", "run_err"} => pipe.cw = "open"
    /\ (child.exited /\ parent.pc = "consume_output") =>
           /\ pipe.pw = "closed" /\ pipe.cw = "closed"
           /\ pipe.buf \in {<<>>, child.bytes}

C11_Witness ==
    /\ child.exited
    /\ parent.pc = "consume_output"
    /\ pipe.buf # <<>>
    /\ pipe.pw = "closed"
    /\ pipe.cr = "closed"

\* The image reference has been parsed from build.image.
ImageParsed == parent.pc \notin {"main", "args"} /\ parent.fail # "main"

\* The part of build.image after its first ':'.
AfterFirstColon == SubSeq(build.image, find_colon(build.image) + 1, Len(build.image))

\* The part of build.image before its first ':' (all of it when it has none).
BeforeFirstColon ==
    IF find_colon(build.image) = 0 THEN build.image
    ELSE SubSeq(build.image, 1, find_colon(build.image) - 1)

\* C12 (as claimed): the name is the part of the argument before the first ':', and
\* the tag is the part after the first ':', "latest" when there is no ':'.
C12_TagIsRestAfterColon ==
    ImageParsed =>
        /\ build.image_name = BeforeFirstColon
        /\ build.image_tag = IF find_colon(build.image) = 0 THEN Latest ELSE AfterFirstColon

\* C12 (amended): the name is the part before the first ':', and the tag is the part
\* between the first ':' and the second ':' (up to the end when there is no second
\* ':'), "latest" when there is no ':'.
C12_TagIsSecondPart ==
    ImageParsed =>
        /\ build.image_name = BeforeFirstColon
        /\ build.image_tag =
              IF find_colon(build.image) = 0 THEN Latest
              ELSE IF find_colon(AfterFirstColon) = 0 THEN AfterFirstColon
              ELSE SubSeq(AfterFirstColon, 1, find_colon(AfterFirstColon) - 1)

C12_Witness ==
    /\ parent.pc = "parsed"
    /\ build.image = <<"a", ":", "b", ":">>
    /\ build.image_name = <<"a">>
    /\ build.image_tag = <<"b">>

\* C13 (as claimed): the command runs only after pivot_root, the detach of the old
\* root and the removal of its directory have succeeded; a child whose detach
\* failed (the old root is still mounted after the umount step) goes no further;
\* and the removal never runs over the mounted old root.
C13_ChainStopsAtFailure ==
    /\ cmd.state # "none" => (child.pivoted /\ fs.oldRoot = "none")
    /\ fs.oldRoot = "mounted" => child.pc \in {"umount", "run_err", "done"}
    /\ ~fs.hostFilesRemoved

\* C14: at most one message is written to the pipe and at most one read is made;
\* the message is written after the command has ended; the write end is closed
\* after the write and before the child's exit(0); a launcher that ended without a
\* failure of its own has seen one write and one read, and both ends are closed;
\* and a child that has its message to write does end.
C14_OneWriteOneRead ==
    /\ [](/\ pipe.writes <= 1
          /\ pipe.reads <= 1
          /\ pipe.writes = 1 => (CommandEnded /\ child.pc \in {"close_w", "exit", "done"})
          /\ (pipe.cw = "closed" /\ ~child.exited) => pipe.writes = 1
          /\ child.pc = "exit" => (pipe.writes = 1 /\ pipe.cw = "closed")
          /\ (parent.exited /\ parent.fail = "none") =>
                 /\ pipe.writes = 1 /\ pipe.reads = 1
                 /\ pipe.pr = "closed" /\ pipe.cw = "closed" /\ pipe.pw = "closed")
    /\ (child.pc = "write" ~> child.exited)

C14_Witness ==
    /\ parent.exited
    /\ parent.fail = "none"
    /\ child.exited
    /\ child.fail = "none"
    /\ pipe.writes = 1
    /\ pipe.reads = 1

\* init_sandbox_root has returned Ok: the parent is at the fork or beyond it.
BuildDone ==
    LET after == {"fork", "close_w", "consume_output", "waitpid"}
    IN  \/ parent.pc \in after
        \/ parent.pc \in {"run_err", "done"} /\ parent.fail \in after \cup {"none"}

\* C15 (as claimed): no layer is extracted before all are downloaded and no archive
\* is removed before all are extracted; the cleanup of a build whose downloads and
\* extractions succeeded never fails for want of the archive; and after the build
\* none of the downloaded archives is left in the scratch directory.
C15_ArchivesCleanedUp ==
    /\ Len(build.extracted) > 0 => Len(build.downloaded) = Len(build.layers)
    /\ build.removed > 0 => Len(build.extracted) = Len(build.layer_archives)
    /\ build.removeError # "not_found"
    /\ BuildDone =>
           \A i \in 1..Len(build.layer_archives) :
               ~fs.scratch[build.layer_archives[i]].exists

\* C16: a call made with the token cached whose authenticated request fails returns
\* an error, keeps the token and sends nothing to the auth endpoint; a call whose
\* token fetch fails does not succeed, leaves the cache empty and has asked the auth
\* endpoint once (it does not try again itself).
C16_FailureKeepsCache ==
    /\ (last.op # "none" /\ last.tokenBefore # None /\ last.resp # "ok") =>
           /\ last.kind = "Err"
           /\ client.token = last.tokenBefore
           /\ client.requests = last.requestsBefore
    /\ (last.op # "none" /\ last.tokenBefore = None /\ last.authResp # "token") =>
           /\ last.kind # "Ok"
           /\ client.token = None
           /\ client.requests = last.requestsBefore + 1

C16_Witness ==
    /\ last.op = "get_manifest"
    /\ last.tokenBefore = Token
    /\ last.resp = "status_error"
    /\ last.kind = "Err"
    /\ client.token = Token
    /\ client.requests = 1

\* C17 (as claimed): on the paths of the child branch that end without a panic
\* (success, pivot_root failure, spawn failure) the child never returns from run,
\* never prints main's diagnostic line and never runs the destructor of the
\* temporary root directory.
C17_OnlyParentReturns ==
    child.fail \in {"none", "pivot_root", "spawn"} =>
        /\ child.run = "none"
        /\ child.diag = 0
        /\ \A i \in 1..Len(fs.drops) : fs.drops[i] # "child"

\* C18 (as claimed): when run has returned an error in the parent, both ends of the
\* pipe it created are closed.
C18_PipeClosedOnError ==
    parent.run = "Err" => (pipe.pr = "closed" /\ pipe.pw = "closed")

====
